---- MODULE Spec2Model ----
(***************************************************************************)
(* Model of receptor/messages/framed.py: the 26-byte Frame header, the     *)
(* FileBackedBuffer, the FramedMessage generator and the FramedBuffer      *)
(* reassembly state machine.                                               *)
(*                                                                         *)
(* Bytes are integers 0..255 and byte strings are sequences of them.       *)
(* A Python int that holds a msg_id (up to 128 bits) is a sequence of      *)
(* eight 16-bit limbs, most significant first; the 32-bit fields are       *)
(* naturals.                                                               *)
(***************************************************************************)
EXTENDS Integers, Sequences, FiniteSets, TLC

VARIABLES frm, fwire, fback, fjoin,
          msg, gen, out, rd,
          sent, wire, eng, puts,
          got, waiters, rexc,
          cbuf, csize

frameVars == <<frm, fwire, fback, fjoin>>
prodVars  == <<msg, gen, out, rd>>
engVars   == <<sent, wire, eng, puts>>
recvVars  == <<got, waiters, rexc>>
chunkVars == <<cbuf, csize>>
vars      == <<frm, fwire, fback, fjoin, msg, gen, out, rd, sent, wire, eng, puts,
               got, waiters, rexc, cbuf, csize>>

(* Python's None *)
None == [none |-> TRUE]

Min(a, b) == IF a <= b THEN a ELSE b
Max(a, b) == IF a >= b THEN a ELSE b

(* b[:n] and b[n:] of Python *)
Take(s, n) == SubSeq(s, 1, Min(n, Len(s)))
Drop(s, n) == SubSeq(s, Min(n, Len(s)) + 1, Len(s))

(***************************************************************************)
(* 128-bit integers as limbs                                               *)
(***************************************************************************)
RECURSIVE BitAnd(_, _)
BitAnd(a, b) ==
    IF a = 0 \/ b = 0 THEN 0
    ELSE (a % 2) * (b % 2) + 2 * BitAnd(a \div 2, b \div 2)

RECURSIVE BitOr(_, _)
BitOr(a, b) ==
    IF a = 0 THEN b
    ELSE IF b = 0 THEN a
    ELSE Max(a % 2, b % 2) + 2 * BitOr(a \div 2, b \div 2)

Zero128 == <<0, 0, 0, 0, 0, 0, 0, 0>>

MAX_INT64 == <<0, 0, 0, 0, 65535, 65535, 65535, 65535>>

(* x >> 64, x << 64, x & y, x | y on limb sequences *)
Shr64(x) == <<0, 0, 0, 0>> \o SubSeq(x, 1, 4)
Shl64(x) == SubSeq(x, 5, 8) \o <<0, 0, 0, 0>>
And128(x, y) == [i \in 1..8 |-> BitAnd(x[i], y[i])]
Or128(x, y) == [i \in 1..8 |-> BitOr(x[i], y[i])]

split_uuid(data) == <<And128(Shr64(data), MAX_INT64), And128(data, MAX_INT64)>>

join_uuid(hi, lo) == Or128(Shl64(hi), lo)

(***************************************************************************)
(* struct.Struct(">ccIIQQ")                                                *)
(***************************************************************************)
FrameSize == 26

PackI(n) == <<n \div 16777216, (n \div 65536) % 256, (n \div 256) % 256, n % 256>>
UnpackI(b) == ((b[1] * 256 + b[2]) * 256 + b[3]) * 256 + b[4]

(* a 64-bit word is a limb sequence whose upper four limbs are zero *)
PackQ(w) == <<w[5] \div 256, w[5] % 256, w[6] \div 256, w[6] % 256,
              w[7] \div 256, w[7] % 256, w[8] \div 256, w[8] % 256>>
UnpackQ(b) == <<0, 0, 0, 0, b[1] * 256 + b[2], b[3] * 256 + b[4],
                b[5] * 256 + b[6], b[7] * 256 + b[8]>>

(***************************************************************************)
(* Frame                                                                   *)
(***************************************************************************)
HEADER == 0
PAYLOAD == 1
COMMAND == 2
Types == {HEADER, PAYLOAD, COMMAND}

Frame(type_, version, length, msg_id, id_) ==
    [type |-> type_, version |-> version, length |-> length,
     msg_id |-> msg_id, id |-> id_]

FrameSerializeSwapped(f) ==
    <<f.type, f.version>> \o PackI(f.length) \o PackI(f.id)
        \o PackQ(split_uuid(f.msg_id)[1]) \o PackQ(split_uuid(f.msg_id)[2])

FrameSerialize(f) ==
    <<f.type, f.version>> \o PackI(f.id) \o PackI(f.length)
        \o PackQ(split_uuid(f.msg_id)[1]) \o PackQ(split_uuid(f.msg_id)[2])

(* Frame.deserialize: struct.error unless buf has exactly 26 bytes,        *)
(* ValueError when the kind byte is not a member of Frame.Types            *)
FrameDeserialize(buf) ==
    IF Len(buf) # FrameSize THEN [exc |-> "struct.error"]
    ELSE IF buf[1] \notin Types THEN [exc |-> "ValueError"]
    ELSE [exc |-> "",
          frame |-> Frame(buf[1], buf[2], UnpackI(SubSeq(buf, 7, 10)),
                          join_uuid(UnpackQ(SubSeq(buf, 11, 18)),
                                    UnpackQ(SubSeq(buf, 19, 26))),
                          UnpackI(SubSeq(buf, 3, 6)))]

(* Frame.from_data: (deserialize(data[:26]), data[26:]) *)
FrameFromDataSkipsByte(data) ==
    [res |-> FrameDeserialize(Take(data, FrameSize)), rest |-> Drop(data, FrameSize + 1)]

FrameFromData(data) ==
    [res |-> FrameDeserialize(Take(data, FrameSize)), rest |-> Drop(data, FrameSize)]

(* Frame.wrap; len_data is len(data), fresh is the value uuid.uuid4().int  *)
(* returns when it is called                                               *)
FrameWrap(len_data, type_, msg_id, fresh) ==
    Frame(type_, 1, len_data, IF msg_id = Zero128 THEN fresh ELSE msg_id, 1)

(***************************************************************************)
(* serde: json.dumps(value).encode("utf-8") and json.load(fp)              *)
(***************************************************************************)
EmptyMap == [map |-> "{}"]
MapA1 == [map |-> "{a: 1}"]
HeaderValues == {None, EmptyMap, MapA1}

JsonDumps(v) ==
    IF v = None THEN <<110, 117, 108, 108>>
    ELSE IF v = EmptyMap THEN <<123, 125>>
    ELSE <<123, 34, 97, 34, 58, 32, 49, 125>>

JsonLoads(b) ==
    IF \E v \in HeaderValues : JsonDumps(v) = b
    THEN [exc |-> "", value |-> CHOOSE v \in HeaderValues : JsonDumps(v) = b]
    ELSE [exc |-> "JSONDecodeError"]

(***************************************************************************)
(* FileBackedBuffer: fp is (data, pos); id tells buffer objects apart      *)
(***************************************************************************)
DefaultMinChunk == 4096
DefaultMaxChunk == 1048576

FileBackedBuffer(data, pos, length, min_chunk, max_chunk, id) ==
    [data |-> data, pos |-> pos, length |-> length,
     min_chunk |-> min_chunk, max_chunk |-> max_chunk, id |-> id]

FbbFromTemp(id) == FileBackedBuffer(<<>>, 0, 0, DefaultMinChunk, DefaultMaxChunk, id)

FbbChunksizeNoCeiling(b) == Max(b.min_chunk, b.length \div 1024)

FbbChunksize(b) == Min(b.max_chunk, Max(b.min_chunk, b.length \div 1024))

(* fp.write(d) at the current position of a file: overwrites what is there, *)
(* extends the file, and fills a gap left by a seek past the end with zeros *)
FpWrite(data, pos, d) ==
    IF d = <<>> THEN data
    ELSE Take(data, pos) \o [i \in 1..(pos - Min(pos, Len(data))) |-> 0]
            \o d \o Drop(data, pos + Len(d))

FbbWrite(b, d) ==
    [b EXCEPT !.data = FpWrite(b.data, b.pos, d), !.pos = b.pos + Len(d),
              !.length = b.length + Len(d)]

FbbSeek(b, offset) == [b EXCEPT !.pos = offset]

(* read(size): size < 0 reads to the end of the file *)
FbbReadChunk(b, size) ==
    IF size < 0 THEN Drop(b.data, b.pos) ELSE Take(Drop(b.data, b.pos), size)

FbbRead(b, size) == [b EXCEPT !.pos = b.pos + Len(FbbReadChunk(b, size))]

(* readall(): remember the position, seek(0), read to the end, and seek    *)
(* back in the finally clause                                              *)
FbbReadAll(b) ==
    [data |-> FbbReadChunk(FbbSeek(b, 0), -1),
     b |-> FbbSeek(FbbRead(FbbSeek(b, 0), -1), b.pos)]

FbbFromData(raw_data, id) == FbbWrite(FbbFromTemp(id), raw_data)

(* from_buffer(io.BytesIO): length is the size of the BytesIO, whose       *)
(* position is wherever its owner left it                                  *)
FbbFromBuffer(data, pos) ==
    FileBackedBuffer(data, pos, Len(data), DefaultMinChunk, DefaultMaxChunk, 0)

(* bool(payload): None is false and so is an object whose __len__ is 0 *)
Truthy(p) == p # None /\ p.length # 0

(***************************************************************************)
(* FramedMessage and its generator __iter__                                *)
(***************************************************************************)
FramedMessage(msg_id, header, payload) ==
    [msg_id |-> msg_id, header |-> header, payload |-> payload]

FrameItem(f) == [tag |-> "frame", frame |-> f, bytes |-> FrameSerialize(f)]
BytesItem(b) == [tag |-> "bytes", frame |-> None, bytes |-> b]

(* one next() of the generator: runs to the following yield or to the end; *)
(* pc names the yield the generator is suspended at                        *)
IterNext(m, pc, fresh) ==
    IF pc = "start" THEN
        [pc |-> "header_bytes", msg |-> m,
         yield |-> <<FrameItem(FrameWrap(Len(JsonDumps(m.header)),
                        IF Truthy(m.payload) THEN HEADER ELSE COMMAND,
                        m.msg_id, fresh))>>]
    ELSE IF pc = "header_bytes" THEN
        [pc |-> "payload_frame", msg |-> m, yield |-> <<BytesItem(JsonDumps(m.header))>>]
    ELSE IF pc = "payload_frame" THEN
        IF Truthy(m.payload)
        THEN [pc |-> "seek", msg |-> m,
              yield |-> <<FrameItem(FrameWrap(m.payload.length, PAYLOAD, m.msg_id, fresh))>>]
        ELSE [pc |-> "done", msg |-> m, yield |-> <<>>]
    ELSE
        LET p == IF pc = "seek" THEN FbbSeek(m.payload, 0) ELSE m.payload
            chunk == FbbReadChunk(p, FbbChunksize(p))
            m1 == [m EXCEPT !.payload = FbbRead(p, FbbChunksize(p))]
        IN  IF chunk = <<>>
            THEN [pc |-> "done", msg |-> m1, yield |-> <<>>]
            ELSE [pc |-> "read", msg |-> m1, yield |-> <<BytesItem(chunk)>>]

(* list(iter(m)): fresh1 and fresh2 are what uuid4 returns in the two wraps, *)
(* two calls of uuid4 returning different values                           *)
RECURSIVE IterAll(_, _, _, _)
IterAll(m, pc, fresh1, fresh2) ==
    IF pc = "done" THEN <<>>
    ELSE LET r == IterNext(m, pc, IF pc = "start" THEN fresh1 ELSE fresh2)
         IN  r.yield \o IterAll(r.msg, r.pc, fresh1, fresh2)

RECURSIVE JoinBytes(_)
JoinBytes(items) ==
    IF items = <<>> THEN <<>> ELSE Head(items).bytes \o JoinBytes(Tail(items))

(* FramedMessage.serialize: b"".join(self) *)
MessageSerialize(m, fresh1, fresh2) == JoinBytes(IterAll(m, "start", fresh1, fresh2))

(***************************************************************************)
(* FramedBuffer.  The record holds the object's attributes; exc is the     *)
(* exception the last put() raised ("" when it returned).  The remaining   *)
(* fields only record history: hist is every message ever put on q, log    *)
(* has one entry per call of finish(), nbuf counts the buffers allocated,  *)
(* parse_mark is len(hist) when from_data last got 26 bytes to parse,      *)
(* nframes counts parsed frames and nbody the body bytes written; nin      *)
(* counts the bytes handed to put, failed tells whether a put has raised,  *)
(* and trace is every byte parsed as frame header or written as body, in   *)
(* the order that happened.                                                *)
(***************************************************************************)
FramedBufferInit ==
    [q |-> <<>>, header |-> None, framebuffer |-> <<>>, bb |-> FbbFromTemp(1),
     current_frame |-> None, to_read |-> 0,
     exc |-> "", hist |-> <<>>, log |-> <<>>, nbuf |-> 1, parse_mark |-> 0,
     nframes |-> 0, nbody |-> 0, nin |-> 0, failed |-> FALSE, trace |-> <<>>]

LogEntry(e, e1, outcome, m) ==
    [type |-> e.current_frame.type, msg_id |-> e.current_frame.msg_id,
     length |-> e.current_frame.length, exc |-> outcome, body |-> e.bb.data,
     header_before |-> e.header, header_after |-> e1.header,
     hist_before |-> Len(e.hist), hist_after |-> Len(e1.hist), msg |-> m]

(* the two statements that end finish() *)
FinishResetKeepsBuffer(e) ==
    [e EXCEPT !.to_read = 0, !.bb = FbbFromTemp(e.bb.id)]

FinishReset(e) ==
    [e EXCEPT !.to_read = 0, !.bb = FbbFromTemp(e.nbuf + 1), !.nbuf = e.nbuf + 1]

Enqueue(e, m) == [e EXCEPT !.q = Append(e.q, m), !.hist = Append(e.hist, m)]

(* the message finish() builds for a PAYLOAD frame *)
PayloadMessageNoHeader(e) == FramedMessage(e.current_frame.msg_id, None, e.bb)

PayloadMessage(e) == FramedMessage(e.current_frame.msg_id, e.header, e.bb)

(* the message finish() builds for a COMMAND frame whose body decoded to value *)
CommandMessageKeepsBuffer(e, value) == FramedMessage(e.current_frame.msg_id, value, e.bb)

CommandMessage(e, value) == FramedMessage(e.current_frame.msg_id, value, None)

(* json.load(self.bb) after self.bb.seek(0): reads the file to its end *)
LoadBody(e) ==
    [res |-> JsonLoads(FbbReadChunk(FbbSeek(e.bb, 0), -1)),
     bb |-> FbbRead(FbbSeek(e.bb, 0), -1)]

FinishBody(e) ==
    IF e.current_frame.type = HEADER THEN
        LET r == LoadBody(e)
        IN  IF r.res.exc # ""
            THEN [eng |-> [e EXCEPT !.bb = r.bb, !.exc = r.res.exc], msg |-> None]
            ELSE [eng |-> FinishReset([e EXCEPT !.bb = r.bb, !.header = r.res.value]),
                  msg |-> None]
    ELSE IF e.current_frame.type = PAYLOAD THEN
        LET m == PayloadMessage(e)
        IN  [eng |-> FinishReset([Enqueue(e, m) EXCEPT !.header = None]), msg |-> m]
    ELSE IF e.current_frame.type = COMMAND THEN
        LET r == LoadBody(e)
            m == CommandMessage(e, r.res.value)
        IN  IF r.res.exc # ""
            THEN [eng |-> [e EXCEPT !.bb = r.bb, !.exc = r.res.exc], msg |-> None]
            ELSE [eng |-> FinishReset(Enqueue([e EXCEPT !.bb = r.bb], m)), msg |-> m]
    ELSE [eng |-> [e EXCEPT !.exc = "Exception"], msg |-> None]

finish(e) ==
    LET r == FinishBody(e)
    IN  [r.eng EXCEPT !.log = Append(e.log, LogEntry(e, r.eng, r.eng.exc, r.msg))]

(* the except clause of handle_frame: only struct.error means "not enough  *)
(* data yet"                                                               *)
CaughtAny(exc) == exc # ""

Caught(exc) == exc = "struct.error"

RECURSIVE handle_frame(_, _)
RECURSIVE consume(_, _)

handle_frame(e, data) ==
    LET fb == e.framebuffer \o data
        r == FrameFromData(fb)
    IN  IF Caught(r.res.exc) THEN [e EXCEPT !.framebuffer = fb]
        ELSE IF r.res.exc # ""
        THEN [e EXCEPT !.framebuffer = fb, !.exc = r.res.exc,
                       !.parse_mark = Len(e.hist)]
        ELSE IF r.res.frame.type \notin Types
        THEN [e EXCEPT !.framebuffer = <<>>, !.exc = "Exception",
                       !.parse_mark = Len(e.hist)]
        ELSE consume([e EXCEPT !.framebuffer = <<>>,
                               !.current_frame = r.res.frame,
                               !.to_read = r.res.frame.length,
                               !.parse_mark = Len(e.hist),
                               !.nframes = e.nframes + 1,
                               !.trace = e.trace \o Take(fb, FrameSize)],
                     r.rest)

(* the test of consume after its write of d: `if self.to_read == 0` *)
BodyComplete(e, d) == e.to_read = 0

consume(e, data) ==
    LET d == Take(data, e.to_read)
        rest == Drop(data, e.to_read)
        e1 == [e EXCEPT !.bb = FbbWrite(e.bb, d), !.to_read = e.to_read - Len(d),
                        !.nbody = e.nbody + Len(d), !.trace = e.trace \o d]
        e2 == IF BodyComplete(e1, d) THEN finish(e1) ELSE e1
    IN  IF e2.exc # "" THEN e2
        ELSE IF rest # <<>> THEN handle_frame(e2, rest)
        ELSE e2

put(e, data) ==
    LET r == IF e.to_read = 0
             THEN handle_frame([e EXCEPT !.exc = ""], data)
             ELSE consume([e EXCEPT !.exc = ""], data)
    IN  [r EXCEPT !.nin = e.nin + Len(data), !.failed = e.failed \/ r.exc # ""]

(* asyncio.Queue removal as FramedBuffer.get / get_nowait use it: the       *)
(* oldest item leaves the queue                                            *)
QueueGetNewest(q) == [item |-> q[Len(q)], rest |-> Take(q, Len(q) - 1)]

QueueGet(q) == [item |-> Head(q), rest |-> Tail(q)]

(* FramedBuffer.get_nowait: q.get_nowait() raises QueueEmpty on an empty   *)
(* queue, else removes and returns one message                             *)
get_nowaitDropsHeader(e) ==
    IF e.q = <<>> THEN [eng |-> e, exc |-> "QueueEmpty", msg |-> None]
    ELSE [eng |-> [e EXCEPT !.q = QueueGet(e.q).rest, !.header = None],
          exc |-> "", msg |-> QueueGet(e.q).item]

get_nowait(e) ==
    IF e.q = <<>> THEN [eng |-> e, exc |-> "QueueEmpty", msg |-> None]
    ELSE [eng |-> [e EXCEPT !.q = QueueGet(e.q).rest],
          exc |-> "", msg |-> QueueGet(e.q).item]

(***************************************************************************)
(* Inputs                                                                  *)
(***************************************************************************)
MaxItems == 2
MaxBufLen == 3
MaxWaiters == 1

IdA == <<1, 2, 3, 4, 5, 6, 7, 258>>
IdB == <<0, 0, 0, 0, 0, 0, 1, 0>>
IdC == <<0, 0, 0, 0, 0, 0, 0, 9>>
IdD == <<0, 1, 0, 0, 32639, 0, 0, 0>>
IdR == <<0, 0, 0, 0, 0, 0, 3, 0>>
IdHigh == <<65535, 0, 32768, 255, 256, 0, 0, 1>>
IdMax == <<65535, 65535, 65535, 65535, 65535, 65535, 65535, 65535>>
(* values uuid.uuid4().int can return *)
FreshIds == {<<4660, 22136, 1, 2, 16384, 1, 2, 3>>,
             <<11085, 1, 2, 3, 16385, 0, 0, 32639>>}

BodyData == {<<7>>, <<7, 8>>}

(* every variable while the component it belongs to is not exercised *)
IdleFrame == frm = None /\ fwire = <<>> /\ fback = <<>> /\ fjoin = <<>>
(* rd is the last read or readall of the payload since it was last written *)
(* or sought: what it returned and the position it started from            *)
NoRead == [op |-> "", data |-> <<>>, pos |-> 0]

IdleProd == msg = None /\ gen = "idle" /\ out = <<>> /\ rd = NoRead
IdleEng == sent = <<>> /\ wire = <<>> /\ eng = FramedBufferInit /\ puts = 0
IdleRecv == got = <<>> /\ waiters = 0 /\ rexc = ""
IdleChunk == cbuf = None /\ csize = <<>>

(***************************************************************************)
(* SpecFrame: Frame.serialize, Frame.deserialize, split_uuid, join_uuid    *)
(***************************************************************************)
FrameInputs ==
    {Frame(t, v, l, m, i) : t \in Types, v \in {0, 1, 255},
        l \in {0, 1, 256, 2147483647}, m \in {Zero128, IdA, IdHigh, IdMax},
        i \in {0, 1, 65536, 2147483647}}

InitFrame == frm \in FrameInputs /\ fwire = <<>> /\ fback = <<>> /\ fjoin = <<>>
             /\ IdleProd /\ IdleEng /\ IdleRecv /\ IdleChunk

DoSerialize ==
    /\ fwire = <<>>
    /\ fwire' = FrameSerialize(frm)
    /\ UNCHANGED <<frm, fback, fjoin>>

DoDeserialize ==
    /\ fwire # <<>> /\ fback = <<>>
    /\ fback' = <<FrameDeserialize(fwire)>>
    /\ UNCHANGED <<frm, fwire, fjoin>>

DoSplitJoin ==
    /\ fjoin = <<>>
    /\ fjoin' = <<join_uuid(split_uuid(frm.msg_id)[1], split_uuid(frm.msg_id)[2])>>
    /\ UNCHANGED <<frm, fwire, fback>>

NextFrame ==
    (DoSerialize \/ DoDeserialize \/ DoSplitJoin)
    /\ UNCHANGED <<prodVars, engVars, recvVars, chunkVars>>

SpecFrame == InitFrame /\ [][NextFrame]_vars

(***************************************************************************)
(* SpecProduce: a payload is built with FileBackedBuffer operations and    *)
(* the message is then iterated, one next() at a time                      *)
(***************************************************************************)
InitProduce ==
    /\ msg \in {FramedMessage(i, h, None) : i \in {Zero128, IdA}, h \in HeaderValues}
    /\ gen = "idle" /\ out = <<>> /\ rd = NoRead
    /\ IdleFrame /\ IdleEng /\ IdleRecv /\ IdleChunk

PayloadFromTemp ==
    /\ gen = "idle" /\ msg.payload = None
    /\ msg' = [msg EXCEPT !.payload = FbbFromTemp(0)]
    /\ UNCHANGED <<gen, out, rd>>

PayloadFromData ==
    /\ gen = "idle" /\ msg.payload = None
    /\ \E d \in BodyData : msg' = [msg EXCEPT !.payload = FbbFromData(d, 0)]
    /\ UNCHANGED <<gen, out, rd>>

PayloadFromBuffer ==
    /\ gen = "idle" /\ msg.payload = None
    /\ \E d \in BodyData, pos \in 0..MaxBufLen :
          /\ pos <= Len(d)
          /\ msg' = [msg EXCEPT !.payload = FbbFromBuffer(d, pos)]
    /\ UNCHANGED <<gen, out, rd>>

(* FileBackedBuffer(io.BytesIO(d), len(d), min_chunk=1, max_chunk=2) *)
PayloadSmallChunks ==
    /\ gen = "idle" /\ msg.payload = None
    /\ \E d \in BodyData : msg' = [msg EXCEPT !.payload = FileBackedBuffer(d, 0, Len(d), 1, 2, 0)]
    /\ UNCHANGED <<gen, out, rd>>

PayloadWrite ==
    /\ gen = "idle" /\ msg.payload # None
    /\ \E d \in BodyData :
          /\ msg.payload.length + Len(d) <= MaxBufLen
          /\ msg.payload.pos + Len(d) <= MaxBufLen
          /\ msg' = [msg EXCEPT !.payload = FbbWrite(msg.payload, d)]
    /\ rd' = NoRead
    /\ UNCHANGED <<gen, out>>

PayloadSeek ==
    /\ gen = "idle" /\ msg.payload # None
    /\ \E o \in 0..MaxBufLen : msg' = [msg EXCEPT !.payload = FbbSeek(msg.payload, o)]
    /\ rd' = NoRead
    /\ UNCHANGED <<gen, out>>

PayloadRead ==
    /\ gen = "idle" /\ msg.payload # None
    /\ \E size \in {-1, 1} :
          /\ rd' = [op |-> "read", data |-> FbbReadChunk(msg.payload, size),
                    pos |-> msg.payload.pos]
          /\ msg' = [msg EXCEPT !.payload = FbbRead(msg.payload, size)]
    /\ UNCHANGED <<gen, out>>

PayloadReadAll ==
    /\ gen = "idle" /\ msg.payload # None
    /\ LET r == FbbReadAll(msg.payload)
       IN  /\ rd' = [op |-> "readall", data |-> r.data, pos |-> msg.payload.pos]
           /\ msg' = [msg EXCEPT !.payload = r.b]
    /\ UNCHANGED <<gen, out>>

IterStart ==
    /\ gen = "idle"
    /\ gen' = "start"
    /\ UNCHANGED <<msg, out, rd>>

IterStep ==
    /\ gen \notin {"idle", "done"}
    /\ \E fresh \in FreshIds :
          LET r == IterNext(msg, gen, fresh)
          IN  msg' = r.msg /\ gen' = r.pc /\ out' = out \o r.yield
    /\ UNCHANGED rd

NextProduce ==
    (PayloadFromTemp \/ PayloadFromData \/ PayloadFromBuffer \/ PayloadSmallChunks
        \/ PayloadWrite \/ PayloadSeek \/ PayloadRead \/ PayloadReadAll
        \/ IterStart \/ IterStep)
    /\ UNCHANGED <<frameVars, engVars, recvVars, chunkVars>>

SpecProduce == InitProduce /\ [][NextProduce]_vars

(***************************************************************************)
(* Spec: serialized messages and raw frames are written to a connection    *)
(* and the reader hands what has arrived to FramedBuffer.put in chunks.    *)
(* Every byte written is below 128, so that a 32-bit field parsed at any   *)
(* offset of the stream stays below 2^31.                                  *)
(***************************************************************************)
Outgoing ==
    {FramedMessage(IdA, EmptyMap, None),
     FramedMessage(IdB, MapA1, None),
     FramedMessage(IdD, MapA1, FbbFromData(<<7, 8>>, 0)),
     FramedMessage(IdC, None, FbbFromData(<<7>>, 0)),
     FramedMessage(IdC, EmptyMap, FbbFromTemp(0)),
     FramedMessage(Zero128, EmptyMap, FbbFromData(<<7>>, 0))}

BadKindFrame == FrameSerialize(Frame(3, 1, 1, IdR, 1)) \o <<125>>
BadHeaderBody == FrameSerialize(Frame(HEADER, 1, 1, IdR, 1)) \o <<123>>
BadCommandBody == FrameSerialize(Frame(COMMAND, 1, 1, IdR, 1)) \o <<123>>
EmptyPayloadFrame == FrameSerialize(Frame(PAYLOAD, 1, 0, IdR, 1))
RawStreams == {BadKindFrame, EmptyPayloadFrame}
BadBodies == {BadHeaderBody, BadCommandBody}

Init == IdleFrame /\ IdleProd /\ IdleEng /\ IdleRecv /\ IdleChunk

SendMessage ==
    /\ Len(sent) < MaxItems
    /\ \E m \in Outgoing, f1 \in FreshIds : \E f2 \in FreshIds \ {f1} :
          LET b == MessageSerialize(m, f1, f2)
          IN  /\ sent' = Append(sent, [msg |-> m, bytes |-> b])
              /\ wire' = wire \o b
    /\ UNCHANGED <<eng, puts>>

SendRaw ==
    /\ Len(sent) < MaxItems
    /\ \E b \in RawStreams :
          /\ sent' = Append(sent, [msg |-> None, bytes |-> b])
          /\ wire' = wire \o b
    /\ UNCHANGED <<eng, puts>>

(* the sizes of chunk the reader may hand over when w has arrived: one or  *)
(* two bytes, a frame header give or take a byte, or everything           *)
ChunkSizes(w) ==
    {n \in 1..Len(w) : n <= 2 \/ n \in (FrameSize - 1)..(FrameSize + 1) \/ n = Len(w)}

Put ==
    /\ \E n \in ChunkSizes(wire) :
          /\ eng' = put(eng, Take(wire, n))
          /\ wire' = Drop(wire, n)
    /\ puts' = Min(puts + 1, 2)
    /\ UNCHANGED sent

Next ==
    (SendMessage \/ SendRaw \/ Put)
    /\ UNCHANGED <<frameVars, prodVars, recvVars, chunkVars>>

Spec == Init /\ [][Next]_vars

(***************************************************************************)
(* SpecErr: as Spec, and the peer may also send a HEADER or COMMAND frame  *)
(* whose body json.load rejects                                            *)
(***************************************************************************)
SendBadBody ==
    /\ Len(sent) < MaxItems
    /\ \E b \in BadBodies :
          /\ sent' = Append(sent, [msg |-> None, bytes |-> b])
          /\ wire' = wire \o b
    /\ UNCHANGED <<eng, puts>>

NextErr ==
    (SendMessage \/ SendRaw \/ SendBadBody \/ Put)
    /\ UNCHANGED <<frameVars, prodVars, recvVars, chunkVars>>

SpecErr == Init /\ [][NextErr]_vars

(***************************************************************************)
(* SpecRecv: the consumers of the completion queue run interleaved with    *)
(* the producer of Spec.  A get(timeout) is pending from its call until it *)
(* returns a message, times out or is cancelled.  The reader hands over a  *)
(* header-sized chunk or everything that has arrived.                      *)
(***************************************************************************)
PutCoarse ==
    /\ \E n \in {k \in {FrameSize, Len(wire)} : k \in 1..Len(wire)} :
          /\ eng' = put(eng, Take(wire, n))
          /\ wire' = Drop(wire, n)
    /\ puts' = Min(puts + 1, 2)
    /\ UNCHANGED sent

GetCall ==
    /\ waiters < MaxWaiters
    /\ waiters' = waiters + 1
    /\ UNCHANGED <<eng, got, rexc>>

GetReturn ==
    /\ waiters > 0 /\ eng.q # <<>>
    /\ LET r == get_nowait(eng)
       IN  eng' = r.eng /\ got' = Append(got, r.msg) /\ rexc' = r.exc
    /\ waiters' = waiters - 1

GetTimeout ==
    /\ waiters > 0
    /\ waiters' = waiters - 1 /\ rexc' = "TimeoutError"
    /\ UNCHANGED <<eng, got>>

GetCancel ==
    /\ waiters > 0
    /\ waiters' = waiters - 1 /\ rexc' = "CancelledError"
    /\ UNCHANGED <<eng, got>>

GetNowait ==
    /\ LET r == get_nowait(eng)
       IN  /\ eng' = r.eng /\ rexc' = r.exc
           /\ got' = IF r.exc = "" THEN Append(got, r.msg) ELSE got
    /\ UNCHANGED waiters

RecvStep == GetCall \/ GetReturn \/ GetTimeout \/ GetCancel \/ GetNowait

NextRecv ==
    \/ (SendMessage \/ SendRaw \/ PutCoarse)
       /\ UNCHANGED <<frameVars, prodVars, recvVars, chunkVars>>
    \/ RecvStep /\ UNCHANGED <<frameVars, prodVars, sent, wire, puts, chunkVars>>

SpecRecv == Init /\ [][NextRecv]_vars

(***************************************************************************)
(* SpecChunk: FileBackedBuffer(fp, length, min_chunk, max_chunk) built     *)
(* over an empty file object with a given length, then written to and      *)
(* asked for its chunksize                                                 *)
(***************************************************************************)
ChunkBounds == {<<1, 2>>, <<2, 2>>, <<3, 16>>, <<DefaultMinChunk, DefaultMaxChunk>>}

ChunkLengths(b) ==
    {0, 1, 1023, 1024, 1024 * b[1] - 1, 1024 * b[1], 1024 * b[1] + 1023,
     1024 * (b[1] + 1) - 1, 1024 * b[2] - 1, 1024 * b[2], 1024 * b[2] + 1024}

InitChunk ==
    /\ \E b \in ChunkBounds : \E l \in ChunkLengths(b) :
          cbuf = FileBackedBuffer(<<>>, 0, l, b[1], b[2], 0)
    /\ csize = <<>>
    /\ IdleFrame /\ IdleProd /\ IdleEng /\ IdleRecv

ChunkWrite ==
    /\ Len(cbuf.data) < MaxBufLen
    /\ \E d \in BodyData : cbuf' = FbbWrite(cbuf, d)
    /\ csize' = <<>>

ChunkSize ==
    /\ csize' = <<FbbChunksize(cbuf)>>
    /\ UNCHANGED cbuf

NextChunk ==
    (ChunkWrite \/ ChunkSize)
    /\ UNCHANGED <<frameVars, prodVars, engVars, recvVars>>

SpecChunk == InitChunk /\ [][NextChunk]_vars

(***************************************************************************)
(* Properties                                                              *)
(***************************************************************************)
RECURSIVE Concat(_)
Concat(items) == IF items = <<>> THEN <<>> ELSE Head(items).bytes \o Concat(Tail(items))

(* every byte written to the connection so far *)
Stream == Concat(sent)

AllDelivered == sent # <<>> /\ wire = <<>>

IsMessage(item) == item.msg # None

(* the bytes a payload holds, read from offset 0; None for no payload *)
Content(p) == IF p = None THEN <<>> ELSE p.data

(* what the claims compare of an engine: the queue, the accumulator,       *)
(* bytes_remaining, the held header and the bytes of the active buffer     *)
View(e) ==
    [q |-> [i \in 1..Len(e.q) |->
              [msg_id |-> e.q[i].msg_id, header |-> e.q[i].header,
               present |-> e.q[i].payload # None, data |-> Content(e.q[i].payload)]],
     framebuffer |-> e.framebuffer, to_read |-> e.to_read,
     header |-> e.header, bb |-> e.bb.data]

(* C1: a message with a header and a non-empty payload, serialized and     *)
(* ingested under any chunking into a fresh engine, puts exactly one       *)
(* message on the queue, with the original msg_id, header and payload      *)
(* bytes.                                                                  *)
C1_DualRoundTrip ==
    (/\ Len(sent) = 1 /\ wire = <<>> /\ IsMessage(sent[1])
     /\ sent[1].msg.header # None
     /\ sent[1].msg.payload # None /\ sent[1].msg.payload.data # <<>>)
    => /\ Len(eng.q) = 1 /\ eng.hist = eng.q
       /\ eng.q[1].msg_id = sent[1].msg.msg_id
       /\ eng.q[1].header = sent[1].msg.header
       /\ eng.q[1].payload # None
       /\ eng.q[1].payload.data = sent[1].msg.payload.data

(* C2: once a byte stream has been ingested, the queue and the engine      *)
(* state are those of ingesting the same stream as one chunk, whatever the *)
(* chunks were.                                                            *)
C2_ChunkIndependent ==
    AllDelivered => View(eng) = View(put(FramedBufferInit, Stream))

(* C3: a message with a header and no payload, serialized and ingested     *)
(* into a fresh engine, yields exactly one message with that header and no *)
(* payload; and every message enqueued by finishing a COMMAND frame has no *)
(* payload.                                                                *)
C3_SinglePart ==
    /\ (/\ Len(sent) = 1 /\ wire = <<>> /\ IsMessage(sent[1])
        /\ sent[1].msg.header # None /\ sent[1].msg.payload = None)
       => /\ Len(eng.q) = 1 /\ eng.hist = eng.q
          /\ eng.q[1].header = sent[1].msg.header
          /\ eng.q[1].payload = None
    /\ \A i \in 1..Len(eng.log) :
          (eng.log[i].type = COMMAND /\ eng.log[i].msg # None)
          => eng.log[i].msg.payload = None

W3_SinglePart ==
    /\ Len(sent) = 1 /\ wire = <<>> /\ IsMessage(sent[1])
    /\ sent[1].msg.header = MapA1 /\ sent[1].msg.payload = None
    /\ Len(eng.q) = 1 /\ eng.log[1].type = COMMAND

(* C4: N >= 2 serialized messages concatenated and ingested as one chunk   *)
(* yield N queued messages, in stream order, each with the msg_id and      *)
(* header of its original.                                                 *)
C4_ManyPerChunk ==
    (/\ puts = 1 /\ wire = <<>> /\ Len(sent) >= 2
     /\ \A i \in 1..Len(sent) : IsMessage(sent[i]))
    => /\ Len(eng.q) = Len(sent)
       /\ \A i \in 1..Len(sent) :
             /\ eng.q[i].msg_id = sent[i].msg.msg_id
             /\ eng.q[i].header = sent[i].msg.header

(* C5: after a HEADER or COMMAND frame whose body failed to decode, the    *)
(* bytes that follow are taken as the next frame: a well-formed message    *)
(* sent next is reassembled with its own header and payload bytes.         *)
C5_DecodeErrorRecovery ==
    (/\ Len(sent) = 2 /\ wire = <<>>
     /\ sent[1].bytes \in BadBodies /\ IsMessage(sent[2]))
    => /\ Len(eng.q) = 1
       /\ eng.q[1].header = sent[2].msg.header
       /\ Content(eng.q[1].payload) = Content(sent[2].msg.payload)

(* a frame header with an unknown kind byte sits in the accumulator *)
BadKindPending(e) ==
    Len(e.framebuffer) >= FrameSize /\ e.framebuffer[1] \notin Types

BadKindSent == \E i \in 1..Len(sent) : sent[i].bytes = BadKindFrame

(* C6: when the 26 bytes awaited carry a kind outside {0, 1, 2}, put fails, *)
(* the queue holds what it held when that header was parsed, and no later  *)
(* put enqueues anything built from it.                                    *)
C6_UnknownKind ==
    /\ [](BadKindPending(eng) =>
            /\ eng.exc = "ValueError"
            /\ Len(eng.hist) = eng.parse_mark)
    /\ []((BadKindSent /\ wire = <<>>) => BadKindPending(eng))
    /\ [][BadKindPending(eng) =>
            /\ eng'.hist = eng.hist /\ eng'.q = eng.q
            /\ BadKindPending(eng')]_vars

W6_UnknownKind ==
    /\ BadKindPending(eng) /\ Len(eng.framebuffer) > FrameSize
    /\ Len(eng.hist) = 1 /\ eng.exc = "ValueError"

(* the number of body bytes emitted from item i up to the next frame *)
RECURSIVE BodyBytes(_, _)
BodyBytes(items, i) ==
    IF i > Len(items) \/ items[i].tag = "frame" THEN 0
    ELSE Len(items[i].bytes) + BodyBytes(items, i + 1)

(* C7: in a production pass the length field of every emitted frame is the *)
(* number of body bytes emitted after it and before the next frame, for a  *)
(* payload built by any construction, write and seek operations.           *)
C7_DeclaredLength ==
    gen = "done" =>
        \A i \in 1..Len(out) :
            out[i].tag = "frame" => out[i].frame.length = BodyBytes(out, i + 1)

(* C8: a message whose payload is present, even if empty, is emitted as    *)
(* HEADER frame, header bytes, PAYLOAD frame, payload chunks; a message    *)
(* whose payload is absent as COMMAND frame, header bytes.                 *)
C8_EmissionShape ==
    gen = "done" =>
        IF msg.payload # None
        THEN /\ Len(out) >= 3
             /\ out[1].tag = "frame" /\ out[1].frame.type = HEADER
             /\ out[2] = BytesItem(JsonDumps(msg.header))
             /\ out[3].tag = "frame" /\ out[3].frame.type = PAYLOAD
             /\ \A i \in 4..Len(out) : out[i].tag = "bytes"
        ELSE /\ Len(out) = 2
             /\ out[1].tag = "frame" /\ out[1].frame.type = COMMAND
             /\ out[2] = BytesItem(JsonDumps(msg.header))

(* finish() number i was for a PAYLOAD frame and the one before it stored  *)
(* the header of a HEADER frame                                            *)
HeaderThenPayload(i) ==
    /\ i > 1 /\ eng.log[i].type = PAYLOAD
    /\ eng.log[i - 1].type = HEADER /\ eng.log[i - 1].exc = ""

HeaderFinishStoresOnly(i) ==
    eng.log[i].type = HEADER =>
        /\ eng.log[i].msg = None
        /\ eng.log[i].hist_after = eng.log[i].hist_before
        /\ eng.log[i].exc = "" =>
              eng.log[i].header_after = JsonLoads(eng.log[i].body).value

PayloadFinishEnqueues(i) ==
    HeaderThenPayload(i) =>
        /\ eng.log[i].hist_after = eng.log[i].hist_before + 1
        /\ eng.log[i].msg # None
        /\ eng.hist[eng.log[i].hist_after] = eng.log[i].msg
        /\ eng.log[i].msg.header = eng.log[i - 1].header_after
        /\ eng.log[i].msg.payload # None
        /\ eng.log[i].msg.payload.data = eng.log[i].body
        /\ eng.log[i].msg.msg_id = eng.log[i].msg_id
        /\ eng.log[i].header_after = None

(* C9 as stated: finishing a HEADER frame enqueues nothing and stores the  *)
(* decoded header; finishing the PAYLOAD frame that follows enqueues one   *)
(* message with header and payload both present, the header being the held *)
(* value and the msg_id the PAYLOAD frame's, and clears the held header.   *)
C9_PairingBothPresent ==
    \A i \in 1..Len(eng.log) :
        /\ HeaderFinishStoresOnly(i)
        /\ PayloadFinishEnqueues(i)
        /\ HeaderThenPayload(i) => eng.log[i].msg.header # None

(* C9 amended: as above, except that the header of the enqueued message is *)
(* the held value, which is None when the HEADER body decoded to null.     *)
C9_Pairing ==
    \A i \in 1..Len(eng.log) : HeaderFinishStoresOnly(i) /\ PayloadFinishEnqueues(i)

W9_Pairing ==
    \E i \in 1..Len(eng.log) :
        /\ HeaderThenPayload(i)
        /\ eng.log[i].msg.header = MapA1 /\ eng.log[i].msg.payload.data = <<7, 8>>

(* C10: serialize() yields 26 bytes and deserializing them gives back the  *)
(* frame's kind, version, sequence id, length and msg_id; joining the two  *)
(* words of a split msg_id gives the msg_id.                               *)
C10_FrameRoundTrip ==
    /\ fwire # <<>> =>
          /\ Len(fwire) = FrameSize
          /\ \A i \in 1..Len(fwire) : fwire[i] \in 0..255
    /\ fback # <<>> => fback[1].exc = "" /\ fback[1].frame = frm
    /\ fjoin # <<>> => fjoin[1] = frm.msg_id

W10_FrameRoundTrip ==
    /\ fback # <<>> /\ fjoin # <<>>
    /\ frm.msg_id = IdHigh /\ frm.length = 2147483647 /\ frm.id = 65536

(* C11: the messages returned by get and get_nowait, followed by those     *)
(* still queued, are exactly the messages finish() enqueued, in that       *)
(* order, each once; get_nowait on an empty queue fails with QueueEmpty,   *)
(* returns nothing and leaves the queue empty                              *)
C11_QueueFifo ==
    /\ [](got \o eng.q = eng.hist)
    /\ [][(GetNowait /\ eng.q = <<>>)
           => (rexc' = "QueueEmpty" /\ got' = got /\ eng'.q = <<>>)]_vars

W11_QueueFifo ==
    /\ Len(got) = 2 /\ got[1] # got[2] /\ eng.q = <<>>
    /\ rexc = "QueueEmpty"

(* the reassembly state of the engine: accumulator, current frame, bytes   *)
(* remaining, active buffer and held header                                *)
Reassembly(e) == <<e.framebuffer, e.current_frame, e.to_read, e.bb, e.header>>

(* C12: a step of get (returning, timing out, cancelled) or of get_nowait  *)
(* (returning or failing) leaves the accumulator, the current frame, the   *)
(* bytes remaining, the active buffer and the held header as they were     *)
C12_ReceiveLeavesReassembly ==
    [][RecvStep => Reassembly(eng') = Reassembly(eng)]_vars

W12_ReceiveLeavesReassembly ==
    /\ got # <<>> /\ eng.q = <<>>
    /\ eng.header # None /\ eng.framebuffer # <<>> /\ rexc = "TimeoutError"

Clamp(x, lo, hi) == IF x < lo THEN lo ELSE IF x > hi THEN hi ELSE x

(* C13: with min_chunk <= max_chunk and length >= 0, chunksize is          *)
(* length // 1024 clamped into [min_chunk, max_chunk]: it lies in that     *)
(* range, is min_chunk at length 0 and max_chunk once length reaches       *)
(* max_chunk * 1024, after any writes                                      *)
C13_ChunkSizeClamp ==
    (csize # <<>> /\ cbuf.min_chunk <= cbuf.max_chunk /\ cbuf.length >= 0) =>
        /\ csize[1] = Clamp(cbuf.length \div 1024, cbuf.min_chunk, cbuf.max_chunk)
        /\ cbuf.min_chunk <= csize[1] /\ csize[1] <= cbuf.max_chunk
        /\ (cbuf.length = 0 => csize[1] = cbuf.min_chunk)
        /\ (cbuf.length >= cbuf.max_chunk * 1024 => csize[1] = cbuf.max_chunk)

W13_ChunkSizeClamp ==
    /\ csize # <<>> /\ cbuf.data # <<>>
    /\ cbuf.min_chunk < csize[1] /\ csize[1] < cbuf.max_chunk

(* C14: once finish() has run for a frame, whatever its outcome, the       *)
(* engine awaits a frame with to_read = 0 and an empty active buffer, so   *)
(* the body finish() sees for every frame is exactly that frame's bytes    *)
C14_ResetAfterFrame ==
    /\ eng.to_read = 0 => (eng.bb.data = <<>> /\ eng.bb.length = 0)
    /\ \A i \in 1..Len(eng.log) : Len(eng.log[i].body) = eng.log[i].length

HasPayload(m) == m.payload # None

(* C15: the active buffer is never the payload of a message that was ever  *)
(* enqueued, and no two enqueued messages have the same payload buffer, so *)
(* the engine's writes and seeks never reach a buffer it handed over       *)
C15_OwnershipHandoff ==
    /\ \A i \in 1..Len(eng.hist) :
          HasPayload(eng.hist[i]) => eng.hist[i].payload.id # eng.bb.id
    /\ \A i, j \in 1..Len(eng.hist) :
          (i < j /\ HasPayload(eng.hist[i]) /\ HasPayload(eng.hist[j]))
              => eng.hist[i].payload.id # eng.hist[j].payload.id

W15_OwnershipHandoff ==
    /\ Len(eng.hist) = 2 /\ HasPayload(eng.hist[1]) /\ HasPayload(eng.hist[2])
    /\ eng.hist[1].payload.data # <<>> /\ eng.bb.data = <<>>

(* C16: after every put, returned or raised, the accumulator holds fewer   *)
(* than 26 bytes, and it is empty whenever to_read > 0                     *)
C16_AccumulatorBound ==
    /\ Len(eng.framebuffer) < FrameSize
    /\ eng.to_read > 0 => eng.framebuffer = <<>>

(* C17: every frame emitted by a production pass of a message carries the  *)
(* msg_id of that message, for every msg_id from 0 to 2^128 - 1            *)
C17_FramesCarryMsgId ==
    gen = "done" =>
        \A i \in 1..Len(out) :
            out[i].tag = "frame" => out[i].frame.msg_id = msg.msg_id

(* C18: after any construction (empty, raw bytes, existing memory buffer)  *)
(* and any writes, seeks, reads and readalls, len() of the buffer is the   *)
(* number of bytes its file holds, and a readall returns all of them and   *)
(* leaves the position where it was                                        *)
C18_LengthTracksContent ==
    (gen = "idle" /\ msg.payload # None) =>
        /\ msg.payload.length = Len(msg.payload.data)
        /\ rd.op = "readall" =>
              (rd.data = msg.payload.data /\ msg.payload.pos = rd.pos)

(* C19: as long as no put has raised, the bytes handed to put are 26 per   *)
(* parsed frame header plus the body bytes written plus the bytes in the   *)
(* accumulator, and the headers and bodies in the order they were taken,   *)
(* followed by the accumulator, are exactly the bytes handed over          *)
C19_ByteConservation ==
    ~eng.failed =>
        /\ eng.nin = FrameSize * eng.nframes + eng.nbody + Len(eng.framebuffer)
        /\ eng.trace \o eng.framebuffer = Take(Stream, eng.nin)

W19_ByteConservation ==
    /\ ~eng.failed /\ puts = 2
    /\ eng.nframes >= 3 /\ eng.nbody > 2 /\ eng.framebuffer # <<>>

(* C20: finish() has run for every parsed frame whose body is complete by  *)
(* the end of the put that completed it, a frame of length 0 included: the *)
(* engine never holds a parsed frame with to_read = 0 that was not         *)
(* dispatched; and a PAYLOAD frame of length 0 enqueues a message whose    *)
(* payload is present and empty                                            *)
C20_ZeroLengthImmediate ==
    /\ Len(eng.log) = eng.nframes - (IF eng.to_read > 0 THEN 1 ELSE 0)
    /\ (eng.current_frame # None /\ eng.to_read = 0) =>
          /\ eng.log # <<>>
          /\ eng.log[Len(eng.log)].msg_id = eng.current_frame.msg_id
          /\ eng.log[Len(eng.log)].type = eng.current_frame.type
    /\ \A i \in 1..Len(eng.log) :
          (eng.log[i].type = PAYLOAD /\ eng.log[i].length = 0) =>
              /\ eng.log[i].exc = ""
              /\ eng.log[i].hist_after = eng.log[i].hist_before + 1
              /\ HasPayload(eng.log[i].msg)
              /\ eng.log[i].msg.payload.data = <<>>

====
